---- MODULE Spec2Model ----
(***************************************************************************)
(* ReferenceValidator of word_to_markdown_validator.py.                    *)
(*                                                                         *)
(* A text is a sequence of one-character strings.  Regular expressions are *)
(* records interpreted by Ends, which returns every position a match can   *)
(* end at; the string operations of Python used by the code (split, strip, *)
(* lower, in, sorted) are operators computed the way Python computes them. *)
(***************************************************************************)
EXTENDS Integers, Sequences, FiniteSets, TLC

\* markdown_content, inline_refs, reference_list, missing_refs: the fields
\* of a ReferenceValidator.  ret: the operation that ran last and what it
\* returned.  ran: the operations whose results were computed from the
\* current fields (history).  arg: the input of a function under test.
VARIABLES markdown_content, inline_refs, reference_list, missing_refs, ret, ran, arg

vars == <<markdown_content, inline_refs, reference_list, missing_refs, ret, ran, arg>>

(***************************************************************************)
(* Bounds of the model.                                                    *)
(***************************************************************************)
MaxLen == 4

(***************************************************************************)
(* Characters.                                                             *)
(***************************************************************************)
UpperSeq == <<"A", "B", "C", "D", "E", "F", "G", "H", "I", "J", "K", "L", "M",
              "N", "O", "P", "Q", "R", "S", "T", "U", "V", "W", "X", "Y", "Z">>

LowerSeq == <<"a", "b", "c", "d", "e", "f", "g", "h", "i", "j", "k", "l", "m",
              "n", "o", "p", "q", "r", "s", "t", "u", "v", "w", "x", "y", "z">>

DigitSeq == <<"0", "1", "2", "3", "4", "5", "6", "7", "8", "9">>

\* the printable ASCII characters up to the underscore (code points 32..95)
Printable == <<" ", "!", "\"", "#", "$", "%", "&", "'", "(", ")", "*", "+", ",",
               "-", ".", "/", "0", "1", "2", "3", "4", "5", "6", "7", "8", "9",
               ":", ";", "<", "=", ">", "?", "@", "A", "B", "C", "D", "E", "F",
               "G", "H", "I", "J", "K", "L", "M", "N", "O", "P", "Q", "R", "S",
               "T", "U", "V", "W", "X", "Y", "Z", "[", "\\", "]", "^", "_">>

\* the printable ASCII characters after the grave accent (code point 96)
Printable2 == <<"a", "b", "c", "d", "e", "f", "g", "h", "i", "j", "k", "l", "m",
               "n", "o", "p", "q", "r", "s", "t", "u", "v", "w", "x", "y", "z",
               "{", "|", "}", "~">>

Range(s) == {s[i] : i \in 1..Len(s)}

Upper == Range(UpperSeq)

Lower == Range(LowerSeq)

Digit == Range(DigitSeq)

\* \s of the re module and the characters str.strip() removes
Space == {" ", "\t", "\n", "\r", "\f"}

\* \w of the re module: alphanumerics and the underscore
Word == Upper \cup Lower \cup Digit \cup {"_"}

Char == Range(Printable) \cup Range(Printable2) \cup Space

\* ord(c)
Ord == [c \in Char |->
          IF c = "\t" THEN 9
          ELSE IF c = "\n" THEN 10
          ELSE IF c = "\f" THEN 12
          ELSE IF c = "\r" THEN 13
          ELSE IF c \in Range(Printable)
          THEN 31 + (CHOOSE i \in 1..Len(Printable) : Printable[i] = c)
          ELSE 96 + (CHOOSE i \in 1..Len(Printable2) : Printable2[i] = c)]

\* str.lower() on one character
LowerChar == [c \in Char |->
                IF c \in Upper
                THEN LowerSeq[CHOOSE i \in 1..26 : UpperSeq[i] = c]
                ELSE c]

Max(S) == CHOOSE x \in S : \A y \in S : y <= x

Min(S) == CHOOSE x \in S : \A y \in S : x <= y

(***************************************************************************)
(* Python string operations.                                               *)
(***************************************************************************)
\* str.lower()
lower(s) == [i \in 1..Len(s) |-> LowerChar[s[i]]]

\* str.strip()
strip(s) ==
    LET keep == {i \in 1..Len(s) : s[i] \notin Space}
    IN  IF keep = {} THEN <<>> ELSE SubSeq(s, Min(keep), Max(keep))

\* str.startswith(p)
startswith(s, p) == Len(p) <= Len(s) /\ SubSeq(s, 1, Len(p)) = p

\* a in b, for strings
contains(a, b) ==
    \E i \in 0..(Len(b) - Len(a)) : SubSeq(b, i + 1, i + Len(a)) = a

\* a < b, for strings (code point order)
StrLess(a, b) ==
    \E k \in 1..Len(b) :
        /\ k <= Len(a) + 1
        /\ \A j \in 1..(k - 1) : a[j] = b[j]
        /\ (k = Len(a) + 1 \/ Ord[a[k]] < Ord[b[k]])

RECURSIVE sorted(_)
\* sorted(list(S)) for a set S of strings
sorted(S) ==
    IF S = {} THEN <<>>
    ELSE LET m == CHOOSE x \in S : \A y \in S \ {x} : StrLess(x, y)
         IN  <<m>> \o sorted(S \ {m})

RECURSIVE split(_, _)
\* str.split(sep) for a one-character separator
split(s, sep) ==
    LET cut == {i \in 1..Len(s) : s[i] = sep}
    IN  IF cut = {} THEN <<s>>
        ELSE <<SubSeq(s, 1, Min(cut) - 1)>>
             \o split(SubSeq(s, Min(cut) + 1, Len(s)), sep)

(***************************************************************************)
(* Regular expressions.  Ends(r, s, I) is the set of positions at which a  *)
(* match of r in s that starts at a position of I can end (a position is   *)
(* the index of the next character to read).                               *)
(***************************************************************************)
In(S) == [t |-> "in", s |-> S]

Lit(c) == [t |-> "in", s |-> {c}]

Cat(rs) == [t |-> "cat", rs |-> rs]

Opt(r) == [t |-> "opt", r |-> r]

Plus(r) == [t |-> "plus", r |-> r]

Star(r) == [t |-> "opt", r |-> [t |-> "plus", r |-> r]]

Alt(a, b) == [t |-> "alt", a |-> a, b |-> b]

Eol == [t |-> "eol"]

\* a literal string
Str(s) == Cat([i \in 1..Len(s) |-> Lit(s[i])])

\* a literal string matched under re.IGNORECASE
StrI(s) == Cat([i \in 1..Len(s) |-> In({c \in Char : LowerChar[c] = LowerChar[s[i]]})])

RECURSIVE Ends(_, _, _)
Ends(r, s, I) ==
    IF I = {} THEN {}
    ELSE CASE r.t = "in"   -> {i + 1 : i \in {j \in I : j <= Len(s) /\ s[j] \in r.s}}
           [] r.t = "cat"  -> IF r.rs = <<>> THEN I
                              ELSE Ends(Cat(Tail(r.rs)), s, Ends(Head(r.rs), s, I))
           [] r.t = "opt"  -> I \cup Ends(r.r, s, I)
           [] r.t = "plus" -> LET J == Ends(r.r, s, I)
                              IN  J \cup Ends(r, s, J \ I)
           [] r.t = "alt"  -> Ends(r.a, s, I) \cup Ends(r.b, s, I)
           [] r.t = "eol"  -> {i \in I : \/ i = Len(s) + 1
                                         \/ i = Len(s) /\ s[i] = "\n"}

\* re.match(r, s) is not None
match(r, s) == Ends(r, s, {1}) # {}

(***************************************************************************)
(* _normalize_citation                                                     *)
(***************************************************************************)
\* re.sub(r'[^\w\s]', '', s)
RemovePunct(s) == SelectSeq(s, LAMBDA c : c \in Word \cup Space)

RECURSIVE CollapseSpace(_)
\* re.sub(r'\s+', ' ', s)
CollapseSpace(s) ==
    IF s = <<>> THEN <<>>
    ELSE IF s[1] \in Space
         THEN LET rest == {i \in 1..Len(s) : s[i] \notin Space}
              IN  IF rest = {} THEN <<" ">>
                  ELSE <<" ">> \o CollapseSpace(SubSeq(s, Min(rest), Len(s)))
         ELSE <<s[1]>> \o CollapseSpace(Tail(s))

\* a variant that trims before it removes punctuation and collapses spaces
normalize_citation_strip_first(text) == CollapseSpace(RemovePunct(strip(lower(text))))

\* a variant that keeps the punctuation
normalize_citation_keep_punct(text) == strip(CollapseSpace(lower(text)))

normalize_citation(text) == strip(CollapseSpace(RemovePunct(lower(text))))

(***************************************************************************)
(* CITATION_PATTERNS.  Every pattern is an opening delimiter, one group    *)
(* and a closing delimiter (none for the caret form); re.findall returns   *)
(* the text of the group.                                                  *)
(***************************************************************************)
\* \d+
Number == Plus(In(Digit))

\* [A-Z][A-Za-z''\-]+
Author == Cat(<<In(Upper), Plus(In(Upper \cup Lower \cup {"'", "-"}))>>)

\* \d{4}[a-z]?
Year == Cat(<<In(Digit), In(Digit), In(Digit), In(Digit), Opt(In(Lower))>>)

\* \s+
Spaces == Plus(In(Space))

\* [,\s]+
Sep == Plus(In({","} \cup Space))

Pattern(open, group, close) == [open |-> open, group |-> group, close |-> close]

CITATION_PATTERNS ==
    << Pattern(<<"[">>, Number, <<"]">>),
       Pattern(<<"^">>, Number, <<>>),
       Pattern(<<"(">>, Number, <<")">>),
       Pattern(<<"(">>, Cat(<<Author,
                           Opt(Cat(<<Spaces, Str(<<"e", "t">>), Spaces, Str(<<"a", "l">>), Opt(Lit("."))>>)),
                           Sep, Year>>), <<")">>),
       Pattern(<<"[">>, Cat(<<Author,
                           Opt(Cat(<<Spaces, Str(<<"e", "t">>), Spaces, Str(<<"a", "l">>), Opt(Lit("."))>>)),
                           Sep, Year>>), <<"]">>),
       Pattern(<<"(">>, Cat(<<Author, Spaces, Str(<<"a", "n", "d">>), Spaces, Author, Sep, Year>>), <<")">>),
       Pattern(<<"(">>, Cat(<<Author, Spaces, Lit("&"), Spaces, Author, Sep, Year>>), <<")">>),
       Pattern(<<"(">>, Cat(<<Author, Spaces, Year>>), <<")">>),
       Pattern(<<"[">>, Cat(<<Author, Spaces, Year>>), <<"]">>),
       Pattern(<<"(">>, Cat(<<Author, Lit(","), Spaces, Author, Opt(Lit(",")), Spaces,
                           Alt(Str(<<"a", "n", "d">>), Lit("&")), Spaces, Author, Sep, Year>>), <<")">>),
       Pattern(<<"(">>, Cat(<<Author, Spaces, In(Upper), Lit("."),
                           Opt(Cat(<<Spaces, In(Upper), Lit(".")>>)), Sep, Year>>), <<")">>),
       Pattern(<<"(">>, Cat(<<Author, Spaces, Str(<<"e", "t">>), Spaces, Str(<<"a", "l">>), Lit("."),
                           Spaces, Year>>), <<")">>) >>

\* the whole regular expression of a pattern
Whole(p) == Cat(<<Str(p.open), p.group, Str(p.close)>>)

RECURSIVE findall_from(_, _, _)
\* The groups of the non-overlapping matches of p in s, scanning from pos.
\* A match that starts at pos ends at the largest position of Ends: the
\* only repetition that can end at several positions is the greedy \d+ of
\* the caret pattern, and no group can contain its closing delimiter.
findall_from(p, s, pos) ==
    LET starts == {i \in pos..Len(s) : Ends(Whole(p), s, {i}) # {}}
    IN  IF starts = {} THEN {}
        ELSE LET b == Min(starts)
                 e == Max(Ends(Whole(p), s, {b}))
             IN  {SubSeq(s, b + Len(p.open), e - 1 - Len(p.close))}
                 \cup findall_from(p, s, e)

\* set(re.findall(pattern, text))
findall(p, s) == findall_from(p, s, 1)

\* a variant without the parenthesized-number pattern
patterns_without_paren_number ==
    SubSeq(CITATION_PATTERNS, 1, 2) \o SubSeq(CITATION_PATTERNS, 4, Len(CITATION_PATTERNS))

\* the patterns extract_inline_references applies
patterns_applied == CITATION_PATTERNS

\* extract_inline_references: the value assigned to self.inline_refs
extract_inline(text) ==
    sorted(UNION {findall(patterns_applied[i], text) : i \in 1..Len(patterns_applied)})

(***************************************************************************)
(* extract_reference_list                                                  *)
(***************************************************************************)
Header(words) ==
    Cat(<<Plus(Lit("#")), Star(In(Space))>> \o words \o <<Star(In(Space)), Eol>>)

ref_headers ==
    << Header(<<StrI(<<"R", "e", "f", "e", "r", "e", "n", "c", "e">>), Opt(In({"s", "S"}))>>),
       Header(<<StrI(<<"B", "i", "b", "l", "i", "o", "g", "r", "a", "p", "h", "y">>)>>),
       Header(<<StrI(<<"W", "o", "r", "k">>), Opt(In({"s", "S"})), Spaces, StrI(<<"C", "i", "t", "e", "d">>)>>),
       Header(<<StrI(<<"L", "i", "t", "e", "r", "a", "t", "u", "r", "e">>), Spaces, StrI(<<"C", "i", "t", "e", "d">>)>>) >>

\* some header pattern matches the line (re.match, re.IGNORECASE)
is_header(line) == \E k \in 1..Len(ref_headers) : match(ref_headers[k], line)

\* a variant in which the scan does not stop at the first header
ref_section_start_last(lines) ==
    LET hs == {i \in 1..Len(lines) : is_header(lines[i])}
    IN  IF hs = {} THEN 0 ELSE Max(hs)

\* ref_section_start, as an index into lines counted from 1; 0 stands for -1
ref_section_start(lines) ==
    LET hs == {i \in 1..Len(lines) : is_header(lines[i])}
    IN  IF hs = {} THEN 0 ELSE Min(hs)

\* the list comprehension that filters and trims reference_lines
reference_entries(reference_lines) ==
    LET kept == SelectSeq(reference_lines,
                          LAMBDA line : strip(line) # <<>> /\ ~startswith(strip(line), <<"#">>))
    IN  [i \in 1..Len(kept) |-> strip(kept[i])]

(***************************************************************************)
(* validate_references                                                     *)
(***************************************************************************)
\* str.isdigit()
isdigit(s) == s # <<>> /\ \A i \in 1..Len(s) : s[i] \in Digit

\* rf'^\[?{inline_ref}\]?\.?\s+'
numeric_prefix(inline_ref) ==
    Cat(<<Opt(Lit("[")), Str(inline_ref), Opt(Lit("]")), Opt(Lit(".")), Spaces>>)

\* a variant that tests every token, numeric or not, by containment
entry_matches_substring(inline_ref, ref_entry) ==
    \/ contains(inline_ref, ref_entry)
    \/ contains(normalize_citation(inline_ref), normalize_citation(ref_entry))

\* the condition under which the inner loop records ref_entry for inline_ref
entry_matches(inline_ref, ref_entry) ==
    IF isdigit(inline_ref)
    THEN match(numeric_prefix(inline_ref), ref_entry)
    ELSE \/ contains(inline_ref, ref_entry)
         \/ contains(normalize_citation(inline_ref), normalize_citation(ref_entry))

\* a variant in which the inner loop does not break
entries_recorded_no_break(inline_ref, entries) ==
    SelectSeq(entries, LAMBDA e : entry_matches(inline_ref, e))

\* the entries the inner loop appends to matched[inline_ref]: the first
\* entry that satisfies the condition, after which the loop breaks
entries_recorded(inline_ref, entries) ==
    LET hits == {i \in 1..Len(entries) : entry_matches(inline_ref, entries[i])}
    IN  IF hits = {} THEN <<>> ELSE <<entries[Min(hits)]>>

\* a variant that appends to missing without testing found
validate_step_always_missing(acc, inline_ref, entries) ==
    LET rec == entries_recorded(inline_ref, entries)
    IN  [missing |-> Append(acc.missing, inline_ref),
         matched |-> IF rec = <<>> THEN acc.matched
                     ELSE [t \in DOMAIN acc.matched \cup {inline_ref} |->
                             IF t = inline_ref THEN rec ELSE acc.matched[t]]]

\* one iteration of the outer loop on the accumulated (missing, matched)
validate_step(acc, inline_ref, entries) ==
    LET rec == entries_recorded(inline_ref, entries)
    IN  IF rec # <<>>
        THEN [missing |-> acc.missing,
              matched |-> [t \in DOMAIN acc.matched \cup {inline_ref} |->
                             IF t = inline_ref
                             THEN (IF t \in DOMAIN acc.matched THEN acc.matched[t] ELSE <<>>)
                                  \o rec
                             ELSE acc.matched[t]]]
        ELSE [missing |-> Append(acc.missing, inline_ref),
              matched |-> acc.matched]

RECURSIVE validate_loop(_, _, _)
\* the outer loop of validate_references from the n-th token on
validate_loop(acc, refs, entries) ==
    IF refs = <<>> THEN acc
    ELSE validate_loop(validate_step(acc, Head(refs), entries), Tail(refs), entries)

\* (missing, dict(matched)) as validate_references computes them
validate(refs, entries) ==
    validate_loop([missing |-> <<>>, matched |-> <<>>], refs, entries)

(***************************************************************************)
(* generate_report                                                         *)
(***************************************************************************)
ShownInline == 20

ShownEntries == 10

ShownChars == 100

Prefix(s, n) == SubSeq(s, 1, IF Len(s) < n THEN Len(s) ELSE n)

\* the content of the report: its counters, its sections and its verdict
report_of(refs, entries, missing) ==
    [op |-> "generate_report",
     total_inline |-> Len(refs),
     total_entries |-> Len(entries),
     total_missing |-> Len(missing),
     inline_shown |-> Prefix(refs, ShownInline),
     inline_more |-> IF Len(refs) > ShownInline THEN Len(refs) - ShownInline ELSE 0,
     missing_shown |-> missing,
     entries_shown |-> [i \in 1..Len(Prefix(entries, ShownEntries)) |->
                          Prefix(entries[i], ShownChars)
                          \o (IF Len(entries[i]) > ShownChars THEN <<".", ".", ".">> ELSE <<>>)],
     entries_more |-> IF Len(entries) > ShownEntries THEN Len(entries) - ShownEntries ELSE 0,
     passed |-> (missing = <<>>)]


(***************************************************************************)
(* The validator as a state machine.                                       *)
(***************************************************************************)
D_Mixed ==
    <<"S", "e", "e", " ", "[", "1", "]", " ", "a", "n", "d", " ", "(",
      "S", "m", "i", "t", "h", " ", "a", "n", "d", " ", "J", "o", "n",
      "e", "s", ",", " ", "2", "0", "1", "9", ")", ".", "\n", "#", " ",
      "R", "e", "f", "e", "r", "e", "n", "c", "e", "s", "\n", "[", "1",
      "]", " ", "F", "i", "r", "s", "t", " ", "A", "u", "t", "h", "o",
      "r", ".", " ", "T", "i", "t", "l", "e", " ", "A", ".", "\n", "S",
      "m", "i", "t", "h", ",", " ", "A", ".", " ", "a", "n", "d", " ",
      "J", "o", "n", "e", "s", ",", " ", "B", ".", " ", "(", "2", "0",
      "1", "9", ")", ".", " ", "T", "i", "t", "l", "e", " ", "B", ".">>

D_Numbered ==
    <<"A", "s", " ", "s", "h", "o", "w", "n", " ", "i", "n", " ", "[",
      "1", "]", ".", "\n", "#", "#", " ", "r", "e", "f", "e", "r", "e",
      "n", "c", "e", "s", "\n", "[", "1", "]", " ", "F", "i", "r", "s",
      "t", " ", "A", "u", "t", "h", "o", "r", ".", " ", "T", "i", "t",
      "l", "e", " ", "A", ".">>

D_NoHeader ==
    <<"A", "s", " ", "s", "h", "o", "w", "n", " ", "i", "n", " ", "[",
      "1", "]", " ", "a", "n", "d", " ", "[", "2", "]", ".">>

D_Partial ==
    <<"S", "e", "e", " ", "[", "1", "]", " ", "a", "n", "d", " ", "[",
      "2", "]", ".", "\n", "#", " ", "B", "i", "b", "l", "i", "o", "g",
      "r", "a", "p", "h", "y", "\n", "\n", " ", " ", "[", "1", "]",
      " ", "A", ".", " ", "T", "i", "t", "l", "e", ".", " ", " ", "\n",
      "#", " ", "A", "p", "p", "e", "n", "d", "i", "x", "\n", "n", "o",
      "t", "e", "s">>

D_Plain ==
    <<"N", "o", " ", "c", "i", "t", "a", "t", "i", "o", "n", "s", " ",
      "h", "e", "r", "e", ".">>

\* the texts the conversion produces in the model
Docs == {D_Mixed, D_Numbered, D_NoHeader, D_Partial, D_Plain}

Init ==
    /\ markdown_content = <<>>
    /\ inline_refs = <<>>
    /\ reference_list = <<>>
    /\ missing_refs = <<>>
    /\ ret = [op |-> "init"]
    /\ ran = {}
    /\ arg = <<>>

\* mammoth's result is any text
convert_to_markdown(d) ==
    /\ markdown_content' = d
    /\ ret' = [op |-> "convert_to_markdown", val |-> d]
    /\ ran' = {}
    /\ UNCHANGED <<inline_refs, reference_list, missing_refs, arg>>

extract_inline_references ==
    /\ inline_refs' = extract_inline(markdown_content)
    /\ ret' = [op |-> "extract_inline_references", val |-> inline_refs']
    /\ ran' = (ran \ {"validate_references"}) \cup {"extract_inline_references"}
    /\ UNCHANGED <<markdown_content, reference_list, missing_refs, arg>>

extract_reference_list ==
    LET lines == split(markdown_content, "\n")
        start == ref_section_start(lines)
    IN  /\ IF start = 0
           THEN /\ ret' = [op |-> "extract_reference_list", val |-> <<>>]
                /\ UNCHANGED reference_list
           ELSE /\ reference_list' = reference_entries(SubSeq(lines, start + 1, Len(lines)))
                /\ ret' = [op |-> "extract_reference_list", val |-> reference_list']
        /\ ran' = (ran \ {"validate_references"}) \cup {"extract_reference_list"}
        /\ UNCHANGED <<markdown_content, inline_refs, missing_refs, arg>>

validate_references ==
    LET r == validate(inline_refs, reference_list)
    IN  /\ missing_refs' = r.missing
        /\ ret' = [op |-> "validate_references", missing |-> r.missing, matched |-> r.matched]
        /\ ran' = ran \cup {"validate_references"}
        /\ UNCHANGED <<markdown_content, inline_refs, reference_list, arg>>

generate_report ==
    /\ ret' = report_of(inline_refs, reference_list, missing_refs)
    /\ UNCHANGED <<markdown_content, inline_refs, reference_list, missing_refs, ran, arg>>

Next ==
    \/ \E d \in Docs : convert_to_markdown(d)
    \/ extract_inline_references
    \/ extract_reference_list
    \/ validate_references
    \/ generate_report

Spec == Init /\ [][Next]_vars


(***************************************************************************)
(* _normalize_citation on its own: every text over NormChars of at most    *)
(* MaxLen characters, normalized and normalized again.                     *)
(***************************************************************************)
NormChars == {"A", "b", "1", "_", ",", " ", "\t"}

Texts(S, n) == UNION {[1..k -> S] : k \in 0..n}

InitNorm ==
    /\ arg \in Texts(NormChars, MaxLen)
    /\ markdown_content = <<>>
    /\ inline_refs = <<>>
    /\ reference_list = <<>>
    /\ missing_refs = <<>>
    /\ ret = [op |-> "init"]
    /\ ran = {}

\* _normalize_citation(arg)
normalize_call ==
    /\ ret.op = "init"
    /\ ret' = [op |-> "normalize_citation", nth |-> 1, text |-> arg,
               val |-> normalize_citation(arg)]
    /\ UNCHANGED <<markdown_content, inline_refs, reference_list, missing_refs, ran, arg>>

\* _normalize_citation applied to the result of the first call
normalize_again ==
    /\ ret.op = "normalize_citation"
    /\ ret.nth = 1
    /\ ret' = [op |-> "normalize_citation", nth |-> 2, text |-> ret.val,
               val |-> normalize_citation(ret.val)]
    /\ UNCHANGED <<markdown_content, inline_refs, reference_list, missing_refs, ran, arg>>

NextNorm == normalize_call \/ normalize_again

SpecNorm == InitNorm /\ [][NextNorm]_vars

(***************************************************************************)
(* extract_reference_list on its own: every text of at most MaxLines lines *)
(* taken from LocLines.                                                    *)
(***************************************************************************)
MaxLines == 4

L_References == <<"#", " ", "R", "e", "f", "e", "r", "e", "n", "c", "e", "s">>

L_bibliography == <<"#", "#", " ", "b", "i", "b", "l", "i", "o", "g", "r", "a", "p",
      "h", "y", " ", " ">>

L_Indented == <<" ", "#", " ", "R", "e", "f", "e", "r", "e", "n", "c", "e", "s">>

L_Colon == <<"#", " ", "R", "e", "f", "e", "r", "e", "n", "c", "e", "s", ":">>

L_Appendix == <<"#", "A", "p", "p", "e", "n", "d", "i", "x">>

L_Entry1 == <<"[", "1", "]", " ", "A">>

L_Padded == <<" ", "\t", "S", "m", "i", "t", "h", " ", "2", "0", "2", "0", " ",
      " ">>

L_Blank == <<" ", " ", "\t">>

LocLines ==
    {L_References, L_bibliography, L_Indented, L_Colon, L_Appendix,
     L_Entry1, L_Padded, L_Blank, <<>>}

RECURSIVE join(_, _)
\* sep.join(lines)
join(lines, sep) ==
    IF Len(lines) = 1 THEN lines[1]
    ELSE lines[1] \o <<sep>> \o join(Tail(lines), sep)

LocDocs == {join(ls, "\n") : ls \in UNION {[1..k -> LocLines] : k \in 1..MaxLines}}

InitLocate ==
    /\ markdown_content \in LocDocs
    /\ inline_refs = <<>>
    /\ reference_list = <<>>
    /\ missing_refs = <<>>
    /\ ret = [op |-> "convert_to_markdown", val |-> markdown_content]
    /\ ran = {}
    /\ arg = <<>>

NextLocate == extract_reference_list

SpecLocate == InitLocate /\ [][NextLocate]_vars

(***************************************************************************)
(* validate_references on its own: inline_refs is a sorted list without    *)
(* duplicates (extract_inline_references builds no other) and every entry  *)
(* of reference_list is a trimmed, non-empty line that does not start with *)
(* '#' (extract_reference_list stores no other).                           *)
(***************************************************************************)
MaxEntries == 3

MaxEntryLen == 5

T_3 == <<"3">>

T_13 == <<"1", "3">>

T_Smith2020 == <<"S", "m", "i", "t", "h", ",", " ", "2", "0", "2", "0">>

T_SmithJones2019 == <<"S", "m", "i", "t", "h", " ", "a", "n", "d", " ", "J", "o", "n",
      "e", "s", ",", " ", "2", "0", "1", "9">>

E_3 == <<"[", "3", "]", " ", "S", "m", "i", "t", "h", ",", " ", "J", ".",
      " ", "(", "2", "0", "2", "0", ")", ".", " ", "T", "i", "t", "l",
      "e", ".">>

E_13 == <<"[", "1", "3", "]", " ", "J", "o", "n", "e", "s", " ", "(", "2",
      "0", "1", "9", ")", ".">>

E_SmithJ == <<"S", "m", "i", "t", "h", ",", " ", "J", ".", " ", "(", "2", "0",
      "2", "0", ")", ".", " ", "A", " ", "S", "t", "u", "d", "y", ".",
      " ", "J", "o", "u", "r", "n", "a", "l", " ", "X", ".">>

E_Smith2021 == <<"S", "m", "i", "t", "h", ",", " ", "2", "0", "2", "1", ".", " ",
      "A", " ", "D", "i", "f", "f", "e", "r", "e", "n", "t", " ", "S",
      "t", "u", "d", "y", ".">>

E_SmithParen == <<"S", "m", "i", "t", "h", " ", "(", "2", "0", "2", "0", ")", ".",
      " ", "A", " ", "S", "t", "u", "d", "y", ".", " ", "J", "o", "u",
      "r", "n", "a", "l", " ", "X", ".">>

E_SmithJonesAB == <<"S", "m", "i", "t", "h", ",", " ", "A", ".", " ", "a", "n", "d",
      " ", "J", "o", "n", "e", "s", ",", " ", "B", ".", " ", "(", "2",
      "0", "1", "9", ")", ".", " ", "T", "i", "t", "l", "e", " ", "B",
      ".">>

E_Cites == <<"3", ".", " ", "R", "e", "p", "l", "y", " ", "t", "o", " ", "(",
      "S", "m", "i", "t", "h", ",", " ", "2", "0", "2", "0", ")">>

Tokens == {T_3, T_13, T_Smith2020, T_SmithJones2019}

Entries == {E_3, E_13, E_SmithJ, E_Smith2021, E_SmithParen, E_SmithJonesAB, E_Cites}

EntryChars == {"[", "1", "3", "]", ".", " "}

\* the lines over EntryChars that extract_reference_list can store
ShortEntries ==
    {e \in Texts(EntryChars, MaxEntryLen) : e # <<>> /\ strip(e) = e}

InitValidate ==
    /\ \/ /\ inline_refs \in {sorted(S) : S \in SUBSET Tokens}
          /\ reference_list \in UNION {[1..k -> Entries] : k \in 0..MaxEntries}
       \/ /\ inline_refs \in {<<T_3>>, <<T_13>>, <<T_13, T_3>>}
          /\ reference_list \in {<<e>> : e \in ShortEntries}
    /\ markdown_content = <<>>
    /\ missing_refs = <<>>
    /\ ret = [op |-> "init"]
    /\ ran = {}
    /\ arg = <<>>

NextValidate == validate_references

SpecValidate == InitValidate /\ [][NextValidate]_vars


(***************************************************************************)
(* Properties.                                                             *)
(***************************************************************************)
Count(seq, x) == Cardinality({i \in DOMAIN seq : seq[i] = x})

\* some line of the text is a reference-section header
has_header(text) ==
    LET lines == split(text, "\n")
    IN  \E i \in 1..Len(lines) : is_header(lines[i])

\* C1: after validate_references every token of inline_refs is either
\* exactly once in the returned missing list or a key of the returned
\* matched mapping with a non-empty list, never both, and neither result
\* holds a string that is not a token of inline_refs.
C1_Partition ==
    ret.op = "validate_references" =>
        /\ \A t \in Range(inline_refs) :
              \/ Count(ret.missing, t) = 1 /\ t \notin DOMAIN ret.matched
              \/ /\ Count(ret.missing, t) = 0
                 /\ t \in DOMAIN ret.matched
                 /\ ret.matched[t] # <<>>
        /\ Range(ret.missing) \subseteq Range(inline_refs)
        /\ DOMAIN ret.matched \subseteq Range(inline_refs)

C1_Witness ==
    /\ ret.op = "validate_references"
    /\ ret.missing # <<>>
    /\ DOMAIN ret.matched # {}

\* C2: when the current markdown_content has no reference-section header,
\* extract_reference_list returns the empty list, and a validate_references
\* that runs after it reports every token of inline_refs missing and
\* matches none.
C2_NoHeaderAllMissing ==
    ~has_header(markdown_content) =>
        /\ ret.op = "extract_reference_list" => ret.val = <<>>
        /\ (ret.op = "validate_references" /\ "extract_reference_list" \in ran) =>
              /\ ret.missing = inline_refs
              /\ DOMAIN ret.matched = {}

\* e starts with an optional '[', the digits of t, an optional ']', an
\* optional '.' and one whitespace character
NumericShape(t, e) ==
    \E a \in {0, 1}, b \in {0, 1}, c \in {0, 1} :
        LET n == Len(t)
        IN  /\ Len(e) > a + n + b + c
            /\ a = 1 => e[1] = "["
            /\ SubSeq(e, a + 1, a + n) = t
            /\ b = 1 => e[a + n + 1] = "]"
            /\ c = 1 => e[a + n + b + 1] = "."
            /\ e[a + n + b + c + 1] \in Space

\* C3: a token made of digits is matched to an entry only if the entry
\* starts with an optional '[', the token, an optional ']', an optional '.'
\* and whitespace; "3" is matched to "[3] Smith, J. (2020). Title." and is
\* not matched to "[13] Jones (2019).".
C3_NumericPrefix ==
    ret.op = "validate_references" =>
        /\ \A t \in DOMAIN ret.matched :
              (\A k \in 1..Len(t) : t[k] \in Digit) =>
                  \A i \in DOMAIN ret.matched[t] : NumericShape(t, ret.matched[t][i])
        /\ (T_3 \in Range(inline_refs) /\ reference_list = <<E_3>>) =>
              (T_3 \in DOMAIN ret.matched /\ ret.matched[T_3] = <<E_3>>)
        /\ (T_3 \in Range(inline_refs) /\ reference_list = <<E_13>>) =>
              (T_3 \notin DOMAIN ret.matched /\ T_3 \in Range(ret.missing))

C3_Witness ==
    /\ ret.op = "validate_references"
    /\ reference_list = <<E_13, E_3>>
    /\ T_3 \in DOMAIN ret.matched
    /\ ret.matched[T_3] = <<E_3>>

\* C4 as stated: "Smith, 2020" is matched to
\* "Smith, J. (2020). A Study. Journal X." and is not matched to
\* "Smith, 2021. A Different Study.".
C4_Original ==
    (ret.op = "validate_references" /\ T_Smith2020 \in Range(inline_refs)) =>
        /\ reference_list = <<E_SmithJ>> =>
              (T_Smith2020 \in DOMAIN ret.matched /\ ret.matched[T_Smith2020] = <<E_SmithJ>>)
        /\ reference_list = <<E_Smith2021>> => T_Smith2020 \in Range(ret.missing)

\* C4 amended: a textual token is matched to an entry only if the token,
\* or its normalized form, is a contiguous part of the entry, or of its
\* normalized form; "Smith, 2020" is matched to
\* "Smith (2020). A Study. Journal X." and is matched neither to
\* "Smith, J. (2020). A Study. Journal X.", where the initial stays between
\* surname and year, nor to "Smith, 2021. A Different Study.".
C4_Amended ==
    ret.op = "validate_references" =>
        /\ \A t \in DOMAIN ret.matched :
              (\E k \in 1..Len(t) : t[k] \notin Digit) =>
                  \A i \in DOMAIN ret.matched[t] :
                      \/ contains(t, ret.matched[t][i])
                      \/ contains(normalize_citation(t),
                                  normalize_citation(ret.matched[t][i]))
        /\ T_Smith2020 \in Range(inline_refs) =>
              /\ reference_list = <<E_SmithParen>> =>
                    (T_Smith2020 \in DOMAIN ret.matched
                     /\ ret.matched[T_Smith2020] = <<E_SmithParen>>)
              /\ T_Smith2020 \in DOMAIN ret.matched =>
                    \A i \in DOMAIN ret.matched[T_Smith2020] :
                        ret.matched[T_Smith2020][i] \notin {E_SmithJ, E_Smith2021}
              /\ Range(reference_list) \subseteq {E_SmithJ, E_Smith2021} =>
                    (T_Smith2020 \in Range(ret.missing)
                     /\ T_Smith2020 \notin DOMAIN ret.matched)

C4_Witness ==
    /\ ret.op = "validate_references"
    /\ reference_list = <<E_SmithJ, E_SmithParen>>
    /\ T_Smith2020 \in DOMAIN ret.matched
    /\ ret.matched[T_Smith2020] = <<E_SmithParen>>

T_1 == <<"1">>

T_2019 == <<"2", "0", "1", "9">>

E_1 == <<"[", "1", "]", " ", "F", "i", "r", "s", "t", " ", "A", "u", "t",
      "h", "o", "r", ".", " ", "T", "i", "t", "l", "e", " ", "A", ".">>

\* the three operations ran in order on the text D_Mixed
MixedValidated ==
    /\ markdown_content = D_Mixed
    /\ ret.op = "validate_references"
    /\ ran = {"extract_inline_references", "extract_reference_list", "validate_references"}

\* C5 as stated: on the text D_Mixed the three operations yield the tokens
\* "1" and "Smith and Jones, 2019" and an empty missing list.
C5_Original ==
    MixedValidated =>
        /\ Range(inline_refs) = {T_1, T_SmithJones2019}
        /\ ret.missing = <<>>

\* C5 amended: on the text D_Mixed the three operations yield the tokens
\* "1", "2019" (the parenthesized year of the second entry) and
\* "Smith and Jones, 2019"; "1" is matched to "[1] First Author. Title A."
\* and the missing list is "2019", "Smith and Jones, 2019".
C5_Amended ==
    MixedValidated =>
        /\ inline_refs = <<T_1, T_2019, T_SmithJones2019>>
        /\ reference_list = <<E_1, E_SmithJonesAB>>
        /\ ret.missing = <<T_2019, T_SmithJones2019>>
        /\ DOMAIN ret.matched = {T_1}
        /\ ret.matched[T_1] = <<E_1>>

C5_Witness == MixedValidated /\ missing_refs # <<>>

\* e is line without its leading and trailing whitespace, and is not empty
IsTrimOf(e, line) ==
    /\ e # <<>>
    /\ e[1] \notin Space
    /\ e[Len(e)] \notin Space
    /\ \E a \in 0..Len(line) :
          /\ a + Len(e) <= Len(line)
          /\ SubSeq(line, a + 1, a + Len(e)) = e
          /\ \A i \in (1..a) \cup ((a + Len(e) + 1)..Len(line)) : line[i] \in Space

\* C6: on a text with a header line, extract_reference_list returns the
\* lines after the first header that are not blank and whose trimmed text
\* does not begin with '#', each trimmed, in order, duplicates kept; lines
\* up to the first header and blank lines give no entry, and a later header
\* neither restarts nor ends the list.
C6_EntriesAfterFirstHeader ==
    (ret.op = "extract_reference_list" /\ has_header(markdown_content)) =>
        LET lines == split(markdown_content, "\n")
            first == Min({i \in 1..Len(lines) : is_header(lines[i])})
            kept  == {i \in (first + 1)..Len(lines) :
                        \E e \in {strip(lines[i])} : IsTrimOf(e, lines[i]) /\ e[1] # "#"}
        IN  /\ Len(ret.val) = Cardinality(kept)
            /\ \A i \in kept :
                  IsTrimOf(ret.val[Cardinality({j \in kept : j <= i})], lines[i])
            /\ reference_list = ret.val

C6_Witness ==
    /\ ret.op = "extract_reference_list"
    /\ Cardinality({i \in 1..Len(split(markdown_content, "\n")) :
                      is_header(split(markdown_content, "\n")[i])}) >= 2
    /\ ~is_header(split(markdown_content, "\n")[1])
    /\ ret.val # <<>>

\* C7: normalizing a normalized text returns it unchanged.
C7_Idempotent ==
    (ret.op = "normalize_citation" /\ ret.nth = 2) => ret.val = ret.text

C7_Witness ==
    /\ ret.op = "normalize_citation"
    /\ ret.nth = 2
    /\ ret.text # arg
    /\ ret.text # <<>>

\* the match predicate of a token: numeric prefix for a token of digits,
\* raw or normalized containment otherwise
Satisfies(t, e) ==
    IF \A k \in 1..Len(t) : t[k] \in Digit
    THEN NumericShape(t, e)
    ELSE contains(t, e) \/ contains(normalize_citation(t), normalize_citation(e))

\* C8: a matched token maps to a list of exactly one entry, the earliest
\* entry of reference_list that satisfies the match predicate for it.
C8_FirstMatch ==
    ret.op = "validate_references" =>
        \A t \in DOMAIN ret.matched :
            /\ Len(ret.matched[t]) = 1
            /\ \E i \in DOMAIN reference_list :
                  /\ reference_list[i] = ret.matched[t][1]
                  /\ Satisfies(t, reference_list[i])
                  /\ \A j \in 1..(i - 1) : ~Satisfies(t, reference_list[j])

C8_Witness ==
    /\ ret.op = "validate_references"
    /\ reference_list = <<E_SmithJ, E_Cites, E_SmithParen>>
    /\ T_Smith2020 \in DOMAIN ret.matched
    /\ ret.matched[T_Smith2020] = <<E_Cites>>

\* C9: the missing list and the verdict of a report are those of
\* validating the inline references against the entries the report lists:
\* it says PASSED exactly when an entry covers every listed token.
C9_ReportDerived ==
    ret.op = "generate_report" =>
        /\ ret.missing_shown = validate(ret.inline_shown, ret.entries_shown).missing
        /\ ret.passed <=>
              \A t \in Range(ret.inline_shown) :
                  \E e \in Range(ret.entries_shown) : Satisfies(t, e)

\* C10: a normalized text holds only lowercase letters, digits and single
\* spaces, and neither starts nor ends with a space.
C10_OnlyAlnumAndSpaces ==
    ret.op = "normalize_citation" =>
        /\ \A i \in 1..Len(ret.val) : ret.val[i] \in Lower \cup Digit \cup {" "}
        /\ \A i \in 1..(Len(ret.val) - 1) : ~(ret.val[i] = " " /\ ret.val[i + 1] = " ")
        /\ ret.val # <<>> => (ret.val[1] # " " /\ ret.val[Len(ret.val)] # " ")

====
